---------------------------- MODULE Spec2Model ----------------------------
(***************************************************************************)
(* Model of the environment wrappers of assignment3/utils.py:              *)
(* EpisodicLifeEnv, NoopResetEnv, FireResetEnv, MaxAndSkipEnv,             *)
(* ClippedRewardsWrapper and the composer wrap_deepmind_ram, and of the    *)
(* evaluation loop evaluate_agent.                                         *)
(*                                                                         *)
(* A wrapper method makes several calls to the environment below it, and   *)
(* the base environment (the Atari emulator) answers each call as it       *)
(* likes.  The model therefore keeps the Python call stack as state: one   *)
(* step of the model is one answer of the outside world (the base          *)
(* environment's reset or step, or numpy's randint) followed by all the    *)
(* wrapper code that runs until the next outside call is issued or the     *)
(* caller's call returns.  While a call is in progress the only enabled    *)
(* actions are the answers to the pending outside call, so a method always *)
(* runs to its return.                                                     *)
(***************************************************************************)
EXTENDS Integers, Sequences, FiniteSets, TLC

\* ---- bounds of the model ----
MaxLives == 2        \* the base environment reports 0..MaxLives lives
MaxSkip == 3         \* MaxAndSkipEnv built on its own gets skip in 1..MaxSkip
MaxNoop == 3         \* NoopResetEnv built on its own gets noop_max in 1..MaxNoop
MaxEpisodes == 3     \* evaluate_agent is called with num_episodes in 0..MaxEpisodes
MaxEpSteps == 3      \* from this step of an episode on, env only returns reward 0

\* ---- values the base environment can answer with ----
Frames == {<<1, 2>>, <<3, 0>>}
Rewards == {-1, 0, 2}
Actions == {0, 1, 2}
\* the rewards of the environment evaluate_agent is given
EnvRewards == {0, 1}
\* the actions its agent computes
AgentActions == {0, 1}
\* action-meaning tables of base environments
MeaningTables ==
    { <<"NOOP", "FIRE", "UP">>, <<"NOOP", "UP">>, <<"NOOP", "UP", "FIRE">>,
      <<"NOOP", "FIRE">>, <<"FIRE", "NOOP", "UP">>, <<"UP", "NOOP">>, << >> }
\* the tables of the base environments single wrappers are built on
UnitTables == { <<"NOOP", "FIRE", "UP">> }

VARIABLES
    meanings,        \* env.unwrapped.get_action_meanings()
    ale_lives,       \* env.unwrapped.ale.lives()
    status,          \* "new", "ready" (built), or the error construction raised
    ctor,            \* which constructor expression built the chain
    chain,           \* wrapper classes, innermost first; chain[l].env is chain[l-1]
    noop_max,        \* NoopResetEnv.noop_max
    skip,            \* MaxAndSkipEnv._skip
    lives,           \* EpisodicLifeEnv.lives
    was_real_done,   \* EpisodicLifeEnv.was_real_done
    was_real_reset,  \* EpisodicLifeEnv.was_real_reset
    obs_buffer,      \* MaxAndSkipEnv._obs_buffer
    stack,           \* the wrapper methods in progress, outermost first
    pending,         \* the outside call waiting for its answer
    result,          \* what the caller's last call returned
    hist,            \* history: the caller's current (or last) call on the outermost wrapper
    base_rsum,       \* history: sum of the base rewards of the caller's current step
    lives_dropped,   \* history: the life count below a lone EpisodicLifeEnv has decreased
    base_last,       \* history: the last step the base answered below an EpisodicLifeEnv
    base_hist,       \* history: the base calls of the pipeline during the caller's call
    ev               \* evaluate_agent's run: its arguments and what it has asked of env

vars == <<meanings, ale_lives, status, ctor, chain, noop_max, skip, lives,
          was_real_done, was_real_reset, obs_buffer, stack, pending, result,
          hist, base_rsum, lives_dropped, base_last, base_hist, ev>>

\* ---- small helpers ----
NoObs == << >>
NoRet == [obs |-> NoObs]
NoCall == [op |-> "none"]
NoPending == [kind |-> "none", action |-> 0, lo |-> 0, hi |-> 0]
\* entries of the list of calls a wrapper has issued
ResetCall == [op |-> "reset", action |-> 0]
StepCall(a) == [op |-> "step", action |-> a]

Max2(a, b) == IF a >= b THEN a ELSE b
Top(s) == s[Len(s)]
Pop(s) == SubSeq(s, 1, Len(s) - 1)
SetTop(s, f) == [s EXCEPT ![Len(s)] = f]
Contains(tbl, name) == \E i \in DOMAIN tbl : tbl[i] = name
IsStepResult(r) == "reward" \in DOMAIN r
IsObsResult(r) == "obs" \in DOMAIN r

\* np.sign
Sign(x) == IF x > 0 THEN 1 ELSE IF x < 0 THEN -1 ELSE 0

\* variant: a deque that keeps three frames
DequeAppend_three(buf, x) ==
    IF Len(buf) < 3 THEN Append(buf, x) ELSE Append(Tail(buf), x)

\* deque(maxlen=2).append
ObsBufferMaxLen == 2
DequeAppend(buf, x) ==
    IF Len(buf) < ObsBufferMaxLen THEN Append(buf, x) ELSE Append(Tail(buf), x)

\* np.max(np.stack(buf), axis=0) of a non-empty buffer
RECURSIVE MaxFrame(_)
MaxFrame(buf) ==
    IF Len(buf) = 1 THEN buf[1]
    ELSE LET rest == MaxFrame(Tail(buf))
         IN [k \in DOMAIN buf[1] |-> Max2(buf[1][k], rest[k])]


\* ---- what a wrapper method does next ----
\* self.env.<op>(action)
CallInner(m, f, op, action) ==
    [kind |-> "call", m |-> m, f |-> f, op |-> op, action |-> action]
\* np.random.randint(lo, hi)
Draw(m, f, lo, hi) == [kind |-> "randint", m |-> m, f |-> f, lo |-> lo, hi |-> hi]
\* return ret
Return(m, f, ret) == [kind |-> "return", m |-> m, f |-> f, ret |-> ret]
\* pg_agent.compute_action(obs)
ComputeAction(m, f) == [kind |-> "compute_action", m |-> m, f |-> f]

(***************************************************************************)
(* The wrapper methods.  m holds the fields of the wrappers and of the     *)
(* base environment, f is the method's frame (f.pc = "start" on entry,     *)
(* f.action its argument) and r is what the inner call it waited for       *)
(* returned.  Each gives the method's next move.                           *)
(***************************************************************************)

\* gym.Wrapper._step, inherited by NoopResetEnv and FireResetEnv
Wrapper_step(m, f, r) ==
    IF f.pc = "start"
    THEN CallInner(m, [f EXCEPT !.pc = "stepped"], "step", f.action)
    ELSE Return(m, f, r)

\* gym.Wrapper._reset, inherited by ClippedRewardsWrapper
Wrapper_reset(m, f, r) ==
    IF f.pc = "start"
    THEN CallInner(m, [f EXCEPT !.pc = "reset"], "reset", 0)
    ELSE Return(m, f, [obs |-> r.obs])

\* variant: the no-op loop runs once more than drawn
NoopResetEnv_reset_extra(m, f, r) ==
    CASE f.pc = "start" -> CallInner(m, [f EXCEPT !.pc = "reset"], "reset", 0)
      [] f.pc = "reset" -> Draw(m, [f EXCEPT !.pc = "randint"], 1, noop_max + 1)
      [] f.pc = "randint" ->
            CallInner(m, [f EXCEPT !.pc = "loop", !.n = r.n, !.i = 1], "step", 0)
      [] f.pc = "loop" ->
            IF f.i <= f.n
            THEN CallInner(m, [f EXCEPT !.i = @ + 1], "step", 0)
            ELSE Return(m, f, [obs |-> r.obs])

NoopResetEnv_reset(m, f, r) ==
    CASE f.pc = "start" -> CallInner(m, [f EXCEPT !.pc = "reset"], "reset", 0)
      [] f.pc = "reset" -> Draw(m, [f EXCEPT !.pc = "randint"], 1, noop_max + 1)
      [] f.pc = "randint" ->
            \* for _ in range(noops), noops >= 1
            CallInner(m, [f EXCEPT !.pc = "loop", !.n = r.n, !.i = 1], "step", 0)
      [] f.pc = "loop" ->
            IF f.i < f.n
            THEN CallInner(m, [f EXCEPT !.i = @ + 1], "step", 0)
            ELSE Return(m, f, [obs |-> r.obs])

\* variant: the second step is not issued once the first one returns done
FireResetEnv_reset_stops(m, f, r) ==
    CASE f.pc = "start" -> CallInner(m, [f EXCEPT !.pc = "reset"], "reset", 0)
      [] f.pc = "reset" -> CallInner(m, [f EXCEPT !.pc = "fire1"], "step", 1)
      [] f.pc = "fire1" ->
            IF r.done THEN Return(m, f, [obs |-> r.obs])
            ELSE CallInner(m, [f EXCEPT !.pc = "fire2"], "step", 2)
      [] f.pc = "fire2" -> Return(m, f, [obs |-> r.obs])

FireResetEnv_reset(m, f, r) ==
    CASE f.pc = "start" -> CallInner(m, [f EXCEPT !.pc = "reset"], "reset", 0)
      [] f.pc = "reset" -> CallInner(m, [f EXCEPT !.pc = "fire1"], "step", 1)
      [] f.pc = "fire1" -> CallInner(m, [f EXCEPT !.pc = "fire2"], "step", 2)
      [] f.pc = "fire2" -> Return(m, f, [obs |-> r.obs])

\* variant: any change of the life count ends the episode
EpisodicLifeEnv_step_anychange(m, f, r) ==
    IF f.pc = "start"
    THEN CallInner(m, [f EXCEPT !.pc = "stepped"], "step", f.action)
    ELSE LET now == m.ale_lives
             done == r.done \/ (now # m.lives /\ now > 0)
         IN Return([m EXCEPT !.was_real_done = r.done, !.lives = now], f,
                   [r EXCEPT !.done = done])

\* variant: the guard lives > 0 is missing
EpisodicLifeEnv_step_noguard(m, f, r) ==
    IF f.pc = "start"
    THEN CallInner(m, [f EXCEPT !.pc = "stepped"], "step", f.action)
    ELSE LET now == m.ale_lives
             done == r.done \/ now < m.lives
         IN Return([m EXCEPT !.was_real_done = r.done, !.lives = now], f,
                   [r EXCEPT !.done = done])

EpisodicLifeEnv_step(m, f, r) ==
    IF f.pc = "start"
    THEN CallInner(m, [f EXCEPT !.pc = "stepped"], "step", f.action)
    ELSE LET now == m.ale_lives
             done == r.done \/ (now < m.lives /\ now > 0)
         IN Return([m EXCEPT !.was_real_done = r.done, !.lives = now],
                   [f EXCEPT !.compared = TRUE],
                   [r EXCEPT !.done = done])

\* variant: reset always resets the inner environment
EpisodicLifeEnv_reset_always(m, f, r) ==
    IF f.pc = "start"
    THEN CallInner(m, [f EXCEPT !.pc = "reset"], "reset", 0)
    ELSE Return([m EXCEPT !.was_real_reset = (f.pc = "reset"),
                          !.lives = m.ale_lives],
                f, [obs |-> r.obs])

\* variant: reset leaves the stored life count as it is
EpisodicLifeEnv_reset_norefresh(m, f, r) ==
    IF f.pc = "start"
    THEN IF m.was_real_done
         THEN CallInner(m, [f EXCEPT !.pc = "reset"], "reset", 0)
         ELSE CallInner(m, [f EXCEPT !.pc = "noop"], "step", 0)
    ELSE Return([m EXCEPT !.was_real_reset = (f.pc = "reset")],
                f, [obs |-> r.obs])

EpisodicLifeEnv_reset(m, f, r) ==
    IF f.pc = "start"
    THEN IF m.was_real_done
         THEN CallInner(m, [f EXCEPT !.pc = "reset"], "reset", 0)
         ELSE CallInner(m, [f EXCEPT !.pc = "noop"], "step", 0)
    ELSE Return([m EXCEPT !.was_real_reset = (f.pc = "reset"),
                          !.lives = m.ale_lives],
                f, [obs |-> r.obs])

\* variant: the loop does not break on done
MaxAndSkipEnv_step_nobreak(m, f, r) ==
    IF f.pc = "start"
    THEN CallInner(m, [f EXCEPT !.pc = "loop", !.i = 1, !.total_reward = 0],
                   "step", f.action)
    ELSE LET buf == DequeAppend(m.obs_buffer, r.obs)
             total == f.total_reward + r.reward
             m1 == [m EXCEPT !.obs_buffer = buf]
             f1 == [f EXCEPT !.total_reward = total]
         IN IF f.i >= skip
            THEN Return(m1, f1, [obs |-> MaxFrame(buf), reward |-> total,
                                 done |-> r.done, info |-> r.info])
            ELSE CallInner(m1, [f1 EXCEPT !.i = @ + 1], "step", f.action)

\* variant: the frame buffer is emptied when step is entered
MaxAndSkipEnv_step_clears(m, f, r) ==
    IF f.pc = "start"
    THEN CallInner([m EXCEPT !.obs_buffer = << >>],
                   [f EXCEPT !.pc = "loop", !.i = 1, !.total_reward = 0],
                   "step", f.action)
    ELSE LET buf == DequeAppend(m.obs_buffer, r.obs)
             total == f.total_reward + r.reward
             m1 == [m EXCEPT !.obs_buffer = buf]
             f1 == [f EXCEPT !.total_reward = total]
         IN IF r.done \/ f.i >= skip
            THEN Return(m1, f1, [obs |-> MaxFrame(buf), reward |-> total,
                                 done |-> r.done, info |-> r.info])
            ELSE CallInner(m1, [f1 EXCEPT !.i = @ + 1], "step", f.action)

MaxAndSkipEnv_step(m, f, r) ==
    IF f.pc = "start"
    THEN \* for _ in range(self._skip), skip >= 1
         CallInner(m, [f EXCEPT !.pc = "loop", !.i = 1, !.total_reward = 0],
                   "step", f.action)
    ELSE LET buf == DequeAppend(m.obs_buffer, r.obs)
             total == f.total_reward + r.reward
             m1 == [m EXCEPT !.obs_buffer = buf]
             f1 == [f EXCEPT !.total_reward = total]
         IN IF r.done \/ f.i >= skip
            THEN Return(m1, f1, [obs |-> MaxFrame(buf), reward |-> total,
                                 done |-> r.done, info |-> r.info])
            ELSE CallInner(m1, [f1 EXCEPT !.i = @ + 1], "step", f.action)

\* variant: reset keeps the frames buffered before it
MaxAndSkipEnv_reset_noclear(m, f, r) ==
    IF f.pc = "start"
    THEN CallInner(m, [f EXCEPT !.pc = "reset"], "reset", 0)
    ELSE Return([m EXCEPT !.obs_buffer = DequeAppend(@, r.obs)], f,
                [obs |-> r.obs])

MaxAndSkipEnv_reset(m, f, r) ==
    IF f.pc = "start"
    THEN CallInner([m EXCEPT !.obs_buffer = << >>], [f EXCEPT !.pc = "reset"],
                   "reset", 0)
    ELSE Return([m EXCEPT !.obs_buffer = DequeAppend(@, r.obs)], f,
                [obs |-> r.obs])

\* variant: the reward is passed on as it is
ClippedRewardsWrapper_step_raw(m, f, r) ==
    IF f.pc = "start"
    THEN CallInner(m, [f EXCEPT !.pc = "stepped"], "step", f.action)
    ELSE Return(m, f, r)

ClippedRewardsWrapper_step(m, f, r) ==
    IF f.pc = "start"
    THEN CallInner(m, [f EXCEPT !.pc = "stepped"], "step", f.action)
    ELSE Return(m, f, [r EXCEPT !.reward = Sign(r.reward)])

\* gym.Wrapper.step / reset call the _step / _reset of the wrapper's class; a
\* class that defines none inherits the one that passes the call on
\* ---- evaluate_agent ----
RECURSIVE SumSeq(_)
SumSeq(q) == IF q = << >> THEN 0 ELSE q[1] + SumSeq(Tail(q))

\* np.mean(rewards), as the quotient num/den numpy forms; 0/0 is nan
Mean(q) == [num |-> SumSeq(q), den |-> Len(q)]

\* variant: ep_reward is not set to 0 when an episode starts
evaluate_agent_carry(m, f, r) ==
    CASE f.pc = "start" ->
            LET n == IF f.render THEN 1 ELSE f.n
                f1 == [f EXCEPT !.rewards = << >>, !.n = n, !.i = 0]
            IN IF n > 0
               THEN CallInner(m, [f1 EXCEPT !.pc = "reset"], "reset", 0)
               ELSE Return(m, f1, Mean(<< >>))
      [] f.pc = "reset" -> ComputeAction(m, [f EXCEPT !.pc = "act0"])
      [] f.pc = "act0" ->
            CallInner(m, [f EXCEPT !.pc = "step", !.action = r.act], "step", r.act)
      [] f.pc = "step" ->
            ComputeAction(m, [f EXCEPT !.pc = "act", !.reward = r.reward, !.done = r.done])
      [] f.pc = "act" ->
            LET f1 == [f EXCEPT !.action = r.act, !.total_reward = @ + f.reward]
            IN IF ~f1.done
               THEN CallInner(m, [f1 EXCEPT !.pc = "step"], "step", f1.action)
               ELSE LET f2 == [f1 EXCEPT !.rewards = Append(@, f1.total_reward),
                                         !.i = @ + 1]
                    IN IF f2.i < f2.n
                       THEN CallInner(m, [f2 EXCEPT !.pc = "reset"], "reset", 0)
                       ELSE Return([m EXCEPT !.ev.closed = f2.render], f2,
                                   Mean(f2.rewards))

\* variant: the loop of an episode ends after its first step, done or not
evaluate_agent_onestep(m, f, r) ==
    CASE f.pc = "start" ->
            LET n == IF f.render THEN 1 ELSE f.n
                f1 == [f EXCEPT !.rewards = << >>, !.n = n, !.i = 0]
            IN IF n > 0
               THEN CallInner(m, [f1 EXCEPT !.pc = "reset"], "reset", 0)
               ELSE Return(m, f1, Mean(<< >>))
      [] f.pc = "reset" -> ComputeAction(m, [f EXCEPT !.pc = "act0"])
      [] f.pc = "act0" ->
            CallInner(m, [f EXCEPT !.pc = "step", !.action = r.act, !.total_reward = 0],
                      "step", r.act)
      [] f.pc = "step" ->
            ComputeAction(m, [f EXCEPT !.pc = "act", !.reward = r.reward, !.done = r.done])
      [] f.pc = "act" ->
            LET f1 == [f EXCEPT !.action = r.act, !.total_reward = @ + f.reward]
                f2 == [f1 EXCEPT !.rewards = Append(@, f1.total_reward), !.i = @ + 1]
            IN IF f2.i < f2.n
               THEN CallInner(m, [f2 EXCEPT !.pc = "reset"], "reset", 0)
               ELSE Return([m EXCEPT !.ev.closed = f2.render], f2, Mean(f2.rewards))

\* evaluate_agent(pg_agent, env, num_episodes, render); f.n is num_episodes,
\* f.i the loop index, f.total_reward is ep_reward and f.action is act.
\* env.render() and wait() leave env's answers as they are; env.close() closes it.
evaluate_agent(m, f, r) ==
    CASE f.pc = "start" ->
            LET n == IF f.render THEN 1 ELSE f.n
                f1 == [f EXCEPT !.rewards = << >>, !.n = n, !.i = 0]
            IN IF n > 0
               THEN CallInner(m, [f1 EXCEPT !.pc = "reset"], "reset", 0)
               ELSE Return(m, f1, Mean(<< >>))
      [] f.pc = "reset" -> ComputeAction(m, [f EXCEPT !.pc = "act0"])
      [] f.pc = "act0" ->
            CallInner(m, [f EXCEPT !.pc = "step", !.action = r.act, !.total_reward = 0],
                      "step", r.act)
      [] f.pc = "step" ->
            ComputeAction(m, [f EXCEPT !.pc = "act", !.reward = r.reward, !.done = r.done])
      [] f.pc = "act" ->
            LET f1 == [f EXCEPT !.action = r.act, !.total_reward = @ + f.reward]
            IN IF ~f1.done
               THEN CallInner(m, [f1 EXCEPT !.pc = "step"], "step", f1.action)
               ELSE LET f2 == [f1 EXCEPT !.rewards = Append(@, f1.total_reward),
                                         !.i = @ + 1]
                    IN IF f2.i < f2.n
                       THEN CallInner(m, [f2 EXCEPT !.pc = "reset"], "reset", 0)
                       ELSE Return([m EXCEPT !.ev.closed = f2.render], f2,
                                   Mean(f2.rewards))

Method(kind, op, m, f, r) ==
    CASE kind = "evaluate_agent" -> evaluate_agent(m, f, r)
      [] kind = "EpisodicLifeEnv" /\ op = "step" -> EpisodicLifeEnv_step(m, f, r)
      [] kind = "EpisodicLifeEnv" /\ op = "reset" -> EpisodicLifeEnv_reset(m, f, r)
      [] kind = "NoopResetEnv" /\ op = "step" -> Wrapper_step(m, f, r)
      [] kind = "NoopResetEnv" /\ op = "reset" -> NoopResetEnv_reset(m, f, r)
      [] kind = "FireResetEnv" /\ op = "step" -> Wrapper_step(m, f, r)
      [] kind = "FireResetEnv" /\ op = "reset" -> FireResetEnv_reset(m, f, r)
      [] kind = "MaxAndSkipEnv" /\ op = "step" -> MaxAndSkipEnv_step(m, f, r)
      [] kind = "MaxAndSkipEnv" /\ op = "reset" -> MaxAndSkipEnv_reset(m, f, r)
      [] kind = "ClippedRewardsWrapper" /\ op = "step" ->
            ClippedRewardsWrapper_step(m, f, r)
      [] kind = "ClippedRewardsWrapper" /\ op = "reset" -> Wrapper_reset(m, f, r)

\* the class of the outermost wrapper, the one the caller talks to
Outer == IF chain = << >> THEN "none" ELSE chain[Len(chain)]

NewFrame(lvl, op, action) ==
    [lvl |-> lvl, op |-> op, action |-> action, pc |-> "start",
     i |-> 0, n |-> 0, total_reward |-> 0,
     rewards |-> << >>, render |-> FALSE, reward |-> 0, done |-> FALSE,
     compared |-> FALSE]     \* the method has executed "if lives < self.lives ..."

\* ---- history of the caller's current call (not read by the wrapper methods) ----
\* the fields of the outermost wrapper as they are when its method is entered,
\* and what it has asked of the environment below it so far
NewHist(op, action) ==
    [op |-> op, action |-> action,
     lives |-> IF Outer = "EpisodicLifeEnv" THEN lives ELSE 0,
     was_real_done |-> IF Outer = "EpisodicLifeEnv" THEN was_real_done ELSE FALSE,
     obs_buffer |-> IF Outer = "MaxAndSkipEnv" THEN obs_buffer ELSE << >>,
     calls |-> << >>,        \* the inner calls issued (ResetCall, StepCall(a))
     rsum |-> 0,             \* sum of the rewards the inner steps returned
     sawDone |-> FALSE,      \* an inner step has returned done
     afterDone |-> FALSE,    \* an inner call was issued after that
     pobs |-> NoObs,         \* observation of the inner call before the last
     inner |-> NoRet,        \* what the last inner call returned
     drawn |-> 0,            \* what np.random.randint returned
     compared |-> FALSE,     \* the call compared the new life count with the stored one
     ale_lives |-> 0]        \* the base life count when it returned

NoteCall(h, op, action) ==
    [h EXCEPT !.calls = Append(@, IF op = "reset" THEN ResetCall ELSE StepCall(action)),
              !.afterDone = @ \/ h.sawDone]

NoteReturn(h, r, m) ==
    IF ~IsObsResult(r) THEN [h EXCEPT !.drawn = r.n]
    ELSE [h EXCEPT !.pobs = h.inner.obs,
                   !.inner = r,
                   !.ale_lives = m.ale_lives,
                   !.rsum = IF IsStepResult(r) THEN @ + r.reward ELSE @,
                   !.sawDone = IF IsStepResult(r) THEN @ \/ r.done ELSE @]

Outermost(f) == f.lvl = Len(chain)

\* ---- history of the base environment's answers (not read by any method) ----
\* stepped: the base has answered a step; done: the done of the last such step;
\* over: that step returned done and the base has not been reset since
NoBaseLast == [stepped |-> FALSE, done |-> FALSE, over |-> FALSE]
TracksBase == chain # << >> /\ chain[1] = "EpisodicLifeEnv"
LastStep(d) == IF TracksBase THEN [stepped |-> TRUE, done |-> d, over |-> d] ELSE base_last
LastReset == IF TracksBase THEN [base_last EXCEPT !.over = FALSE] ELSE base_last

\* first: the caller's call is the first one on the environment.
\* During that first call, when it is a reset, the base calls are followed
\* through the stages "new" -> "reset" -> "noop" -> "fire1" -> "fire2":
\* stage names the run of equal base calls in progress, len counts the calls
\* of that run, and ok says that every base call so far continued the run in
\* progress within its limit or opened the next stage.
\* During a step of the pipeline, with "closing" for a base step that reported
\* done or a life count that dropped to a value above zero:
\* closed: some base step was closing; afterClosed: a base step came after it;
\* lastClosed: the last base step was closing
NewBaseHist(first) ==
    [first |-> first, stage |-> "new", len |-> 0, ok |-> TRUE,
     closed |-> FALSE, afterClosed |-> FALSE, lastClosed |-> FALSE]
InPipeline == ctor = "wrap_deepmind_ram"
ListsBase == InPipeline /\ base_hist.first /\ hist.op = "reset"
StageOf(a) == CASE a = 0 -> "noop" [] a = 1 -> "fire1" [] OTHER -> "fire2"
StageBefore(st) ==
    CASE st = "noop" -> {"reset"} [] st = "fire1" -> {"noop"} [] OTHER -> {"fire1"}
StageLimit(st) == IF st = "noop" THEN noop_max ELSE skip
NoteBaseReset ==
    IF ListsBase
    THEN [base_hist EXCEPT !.stage = "reset", !.len = 1,
                           !.ok = @ /\ base_hist.stage = "new"]
    ELSE base_hist
NoteBaseStep(a, d, l) ==
    IF ListsBase
    THEN LET st == StageOf(a)
         IN IF base_hist.stage = st
            THEN [base_hist EXCEPT !.len = IF @ < StageLimit(st) THEN @ + 1 ELSE @,
                                   !.ok = @ /\ base_hist.len < StageLimit(st)]
            ELSE [base_hist EXCEPT !.stage = st, !.len = 1,
                                   !.ok = @ /\ base_hist.stage \in StageBefore(st)]
    ELSE IF InPipeline /\ hist.op = "step"
    THEN LET closing == d \/ (l < ale_lives /\ l > 0)
         IN [base_hist EXCEPT !.afterClosed = @ \/ base_hist.closed,
                              !.closed = @ \/ closing,
                              !.lastClosed = closing]
    ELSE base_hist

\* ---- history of a run of evaluate_agent (not read by evaluate_agent) ----
\* num_episodes, render: the arguments; resets: the env.reset calls so far;
\* rsum: the sum of the rewards of all env.step calls; dones: the env.step
\* calls that returned done; epsteps: the steps of the episode in progress, up
\* to MaxEpSteps; done: a step of this episode has returned done;
\* afterDone: a step was issued in an episode after one that returned done
NoEval ==
    [num_episodes |-> 0, render |-> FALSE, resets |-> 0, rsum |-> 0, dones |-> 0,
     epsteps |-> 0, done |-> FALSE, afterDone |-> FALSE, closed |-> FALSE]
NoteEvalCall(e, op) ==
    IF op = "reset"
    THEN [e EXCEPT !.resets = @ + 1, !.epsteps = 0, !.done = FALSE]
    ELSE [e EXCEPT !.afterDone = @ \/ e.done]
NoteEvalReturn(e, r) ==
    IF IsObsResult(r) /\ IsStepResult(r)
    THEN [e EXCEPT !.rsum = @ + r.reward,
                   !.dones = IF r.done THEN @ + 1 ELSE @,
                   !.epsteps = IF @ < MaxEpSteps THEN @ + 1 ELSE @,
                   !.done = @ \/ r.done]
    ELSE e
Evaluates(f) == f.op = "evaluate_agent"
\* the class of layer lvl; evaluate_agent sits on top of the environment
ClassAt(lvl) == IF lvl > Len(chain) THEN "evaluate_agent" ELSE chain[lvl]

\* ---- the Python call stack ----
RECURSIVE Enter(_, _, _, _), Resume(_, _), Continue(_)

\* call <op>(action) on layer lvl; layer 0 is the base environment
Enter(m, lvl, op, action) ==
    IF lvl = 0
    THEN [m EXCEPT !.pending = [kind |-> op, action |-> action, lo |-> 0, hi |-> 0]]
    ELSE LET f == NewFrame(lvl, op, action)
             m1 == [m EXCEPT !.stack = Append(@, f)]
         IN Continue(Method(chain[lvl], op, m1, f, NoRet))

\* carry out the next move o of the method on top of the stack
Continue(o) ==
    CASE o.kind = "call" ->
            Enter([o.m EXCEPT !.stack = SetTop(@, o.f),
                              !.hist = IF Outermost(o.f)
                                       THEN NoteCall(@, o.op, o.action) ELSE @,
                              !.ev = IF Evaluates(o.f)
                                     THEN NoteEvalCall(@, o.op) ELSE @],
                  o.f.lvl - 1, o.op, o.action)
      [] o.kind = "compute_action" ->
            [o.m EXCEPT !.stack = SetTop(@, o.f),
                        !.pending = [kind |-> "compute_action", action |-> 0,
                                     lo |-> 0, hi |-> 0]]
      [] o.kind = "randint" ->
            [o.m EXCEPT !.stack = SetTop(@, o.f),
                        !.pending = [kind |-> "randint", action |-> 0,
                                     lo |-> o.lo, hi |-> o.hi]]
      [] o.kind = "return" ->
            Resume([o.m EXCEPT !.stack = Pop(@),
                               !.hist = IF Outermost(o.f)
                                        THEN [@ EXCEPT !.compared = o.f.compared]
                                        ELSE @],
                   o.ret)

\* r is returned to the method on top of the stack, or to the caller
Resume(m, r) ==
    IF m.stack = << >>
    THEN [m EXCEPT !.result = r, !.pending = NoPending]
    ELSE LET f == Top(m.stack)
             m1 == [m EXCEPT !.hist = IF Outermost(f) THEN NoteReturn(@, r, m) ELSE @,
                             !.ev = IF Evaluates(f) THEN NoteEvalReturn(@, r) ELSE @]
         IN Continue(Method(ClassAt(f.lvl), f.op, m1, f, r))

\* ---- construction ----
\* NoopResetEnv.__init__: assert get_action_meanings()[0] == 'NOOP'
NoopResetEnv_init(tbl) ==
    IF Len(tbl) < 1 THEN "IndexError"
    ELSE IF tbl[1] # "NOOP" THEN "AssertionError"
    ELSE "ok"

\* variant: the assertion on the number of actions is missing
FireResetEnv_init_nolen(tbl) ==
    IF Len(tbl) < 2 THEN "IndexError"
    ELSE IF tbl[2] # "FIRE" THEN "AssertionError"
    ELSE "ok"

\* FireResetEnv.__init__: assert get_action_meanings()[1] == 'FIRE', len(...) >= 3
FireResetEnv_init(tbl) ==
    IF Len(tbl) < 2 THEN "IndexError"
    ELSE IF tbl[2] # "FIRE" THEN "AssertionError"
    ELSE IF ~(Len(tbl) >= 3) THEN "AssertionError"
    ELSE "ok"

\* the constructor of one wrapper class applied to an environment
WrapperInit(kind, tbl) ==
    CASE kind = "NoopResetEnv" -> NoopResetEnv_init(tbl)
      [] kind = "FireResetEnv" -> FireResetEnv_init(tbl)
      [] OTHER -> "ok"

NoopMaxDeepmind == 30
SkipDeepmind == 4

\* variant: FireResetEnv is never applied
HasFire_never(tbl) == FALSE

\* 'FIRE' in env.unwrapped.get_action_meanings()
HasFire(tbl) == Contains(tbl, "FIRE")

\* variant: rewards are clipped below the frame skip
DeepmindStages_clipfirst(tbl) ==
    <<"EpisodicLifeEnv", "NoopResetEnv", "ClippedRewardsWrapper", "MaxAndSkipEnv">>
    \o (IF HasFire(tbl) THEN <<"FireResetEnv">> ELSE << >>)

\* the wrappers wrap_deepmind_ram applies, in the order it applies them
DeepmindStages(tbl) ==
    <<"EpisodicLifeEnv", "NoopResetEnv", "MaxAndSkipEnv">>
    \o (IF HasFire(tbl) THEN <<"FireResetEnv">> ELSE << >>)
    \o <<"ClippedRewardsWrapper">>

\* apply the constructors of stages[k..] on top of built; the first error ends it
RECURSIVE BuildFrom(_, _, _, _)
BuildFrom(stages, k, built, tbl) ==
    IF k > Len(stages) THEN [error |-> "ok", chain |-> built]
    ELSE LET e == WrapperInit(stages[k], tbl)
         IN IF e # "ok" THEN [error |-> e, chain |-> << >>]
            ELSE BuildFrom(stages, k + 1, Append(built, stages[k]), tbl)

wrap_deepmind_ram(tbl) == BuildFrom(DeepmindStages(tbl), 1, << >>, tbl)

\* ---- the state as one record, and back ----
M == [lives |-> lives, was_real_done |-> was_real_done,
      was_real_reset |-> was_real_reset, obs_buffer |-> obs_buffer,
      ale_lives |-> ale_lives, stack |-> stack, pending |-> pending,
      result |-> result, hist |-> hist, ev |-> ev]

Commit(m) ==
    /\ lives' = m.lives
    /\ was_real_done' = m.was_real_done
    /\ was_real_reset' = m.was_real_reset
    /\ obs_buffer' = m.obs_buffer
    /\ ale_lives' = m.ale_lives
    /\ stack' = m.stack
    /\ pending' = m.pending
    /\ result' = m.result
    /\ hist' = m.hist
    /\ ev' = m.ev

Idle == status = "ready" /\ pending.kind = "none"

Init ==
    /\ meanings = << >>
    /\ ale_lives = 0
    /\ status = "new"
    /\ ctor = "none"
    /\ chain = << >>
    /\ noop_max = 0
    /\ skip = 0
    \* EpisodicLifeEnv.__init__
    /\ lives = 0
    /\ was_real_done = TRUE
    /\ was_real_reset = FALSE
    \* MaxAndSkipEnv.__init__
    /\ obs_buffer = << >>
    /\ stack = << >>
    /\ pending = NoPending
    /\ result = NoRet
    /\ hist = NoCall
    /\ base_rsum = 0
    /\ lives_dropped = FALSE
    /\ base_last = NoBaseLast
    /\ base_hist = NewBaseHist(TRUE)
    /\ ev = NoEval

\* one wrapper class built directly on a base environment with table tbl
MakeWrapper ==
    /\ status = "new"
    /\ \E kind \in {"EpisodicLifeEnv", "NoopResetEnv", "FireResetEnv",
                    "MaxAndSkipEnv", "ClippedRewardsWrapper"},
          tbl \in UnitTables, nm \in 1..MaxNoop, sk \in 1..MaxSkip, l \in 0..MaxLives :
          LET e == WrapperInit(kind, tbl)
          IN /\ meanings' = tbl
             /\ ale_lives' = l
             /\ ctor' = kind
             /\ status' = IF e = "ok" THEN "ready" ELSE e
             /\ chain' = IF e = "ok" THEN <<kind>> ELSE << >>
             /\ noop_max' = IF e = "ok" /\ kind = "NoopResetEnv" THEN nm ELSE 0
             /\ skip' = IF e = "ok" /\ kind = "MaxAndSkipEnv" THEN sk ELSE 0
    /\ UNCHANGED <<lives, was_real_done, was_real_reset,
                   obs_buffer, stack, pending, result, hist, base_rsum,
                   lives_dropped, base_last, base_hist, ev>>

WrapDeepmindRam ==
    /\ status = "new"
    /\ \E tbl \in MeaningTables, l \in 0..MaxLives :
       LET b == wrap_deepmind_ram(tbl)
       IN /\ meanings' = tbl
          /\ ale_lives' = l
          /\ ctor' = "wrap_deepmind_ram"
          /\ status' = IF b.error = "ok" THEN "ready" ELSE b.error
          /\ chain' = b.chain
          /\ noop_max' = IF b.error = "ok" THEN NoopMaxDeepmind ELSE 0
          /\ skip' = IF b.error = "ok" THEN SkipDeepmind ELSE 0
    /\ UNCHANGED <<lives, was_real_done, was_real_reset,
                   obs_buffer, stack, pending, result, hist, base_rsum,
                   lives_dropped, base_last, base_hist, ev>>

\* the caller calls env.reset() / env.step(a) on the outermost wrapper
Reset ==
    /\ Idle
    /\ Commit(Enter([M EXCEPT !.hist = NewHist("reset", 0), !.result = NoRet],
                    Len(chain), "reset", 0))
    /\ base_rsum' = 0
    /\ base_hist' = IF InPipeline THEN NewBaseHist(hist = NoCall) ELSE base_hist
    /\ UNCHANGED <<meanings, status, ctor, chain, noop_max, skip, lives_dropped,
                   base_last>>

Step ==
    /\ Idle
    /\ \E a \in Actions :
          Commit(Enter([M EXCEPT !.hist = NewHist("step", a), !.result = NoRet],
                       Len(chain), "step", a))
    /\ base_rsum' = 0
    /\ base_hist' = IF InPipeline THEN NewBaseHist(hist = NoCall) ELSE base_hist
    /\ UNCHANGED <<meanings, status, ctor, chain, noop_max, skip, lives_dropped,
                   base_last>>

\* the base environment answers a reset: a frame, and some life count
BaseReset ==
    /\ pending.kind = "reset"
    /\ \E o \in Frames, l \in 0..MaxLives :
          /\ Commit(Resume([M EXCEPT !.ale_lives = l], [obs |-> o]))
          /\ lives_dropped' = (lives_dropped \/ (Outer = "EpisodicLifeEnv" /\ l < ale_lives))
    /\ base_last' = LastReset
    /\ base_hist' = NoteBaseReset
    /\ UNCHANGED <<meanings, status, ctor, chain, noop_max, skip, base_rsum>>

\* the base environment answers a step
BaseStep ==
    /\ pending.kind = "step"
    /\ \E o \in Frames, rw \in Rewards, d \in BOOLEAN, l \in 0..MaxLives :
          /\ Commit(Resume([M EXCEPT !.ale_lives = l],
                           [obs |-> o, reward |-> rw, done |-> d,
                            info |-> [lives |-> l]]))
          /\ lives_dropped' = (lives_dropped \/ (Outer = "EpisodicLifeEnv" /\ l < ale_lives))
          /\ base_rsum' = IF hist.op = "step" THEN base_rsum + rw ELSE base_rsum
          /\ base_last' = LastStep(d)
          /\ base_hist' = NoteBaseStep(pending.action, d, l)
    /\ UNCHANGED <<meanings, status, ctor, chain, noop_max, skip>>

\* np.random.randint(lo, hi) answers with any integer in [lo, hi)
RandInt ==
    /\ pending.kind = "randint"
    /\ \E n \in pending.lo..(pending.hi - 1) : Commit(Resume(M, [n |-> n]))
    /\ UNCHANGED <<meanings, status, ctor, chain, noop_max, skip, base_rsum,
                   lives_dropped, base_last, base_hist>>

\* evaluate_agent is called with an agent and an environment env
EvaluateAgent ==
    /\ status = "new"
    /\ \E ne \in 0..MaxEpisodes, rd \in BOOLEAN :
          LET f == [NewFrame(1, "evaluate_agent", 0) EXCEPT !.n = ne, !.render = rd]
              e == [NoEval EXCEPT !.num_episodes = ne, !.render = rd]
          IN Commit(Continue(evaluate_agent([M EXCEPT !.stack = <<f>>, !.ev = e], f, NoRet)))
    /\ status' = "ready"
    /\ ctor' = "evaluate_agent"
    /\ UNCHANGED <<meanings, chain, noop_max, skip, base_rsum, lives_dropped,
                   base_last, base_hist>>

\* pg_agent.compute_action(obs) answers the call that m is waiting for
AgentAct(m, a) ==
    IF m.pending.kind = "compute_action" THEN Resume(m, [act |-> a]) ELSE m

\* env answers evaluate_agent's reset, and the agent the compute_action after it
EnvReset ==
    /\ ctor = "evaluate_agent"
    /\ pending.kind = "reset"
    /\ \E o \in Frames, a \in AgentActions :
          \E m \in {Resume(M, [obs |-> o])} : Commit(AgentAct(m, a))
    /\ UNCHANGED <<meanings, status, ctor, chain, noop_max, skip, base_rsum,
                   lives_dropped, base_last, base_hist>>

\* env answers evaluate_agent's step, and the agent the compute_action after it
EnvStep ==
    /\ ctor = "evaluate_agent"
    /\ pending.kind = "step"
    /\ \E o \in Frames, rw \in EnvRewards, d \in BOOLEAN, a \in AgentActions :
          /\ ev.epsteps < MaxEpSteps \/ rw = 0
          /\ \E m \in {Resume(M, [obs |-> o, reward |-> rw, done |-> d,
                                    info |-> [lives |-> ale_lives]])} :
                Commit(AgentAct(m, a))
    /\ UNCHANGED <<meanings, status, ctor, chain, noop_max, skip, base_rsum,
                   lives_dropped, base_last, base_hist>>

NextEvaluate ==
    \/ EvaluateAgent
    \/ EnvReset
    \/ EnvStep

SpecEvaluate == Init /\ [][NextEvaluate]_vars

\* the environment and the agent answer every call, and evaluate_agent runs on
SpecEvaluateFair == Init /\ [][NextEvaluate]_vars /\ WF_vars(NextEvaluate)

\* single wrappers on a base environment
Next ==
    \/ MakeWrapper
    \/ Reset
    \/ Step
    \/ BaseReset
    \/ BaseStep
    \/ RandInt

Spec == Init /\ [][Next]_vars

\* the pipeline of wrap_deepmind_ram on a base environment
NextDeepmind ==
    \/ WrapDeepmindRam
    \/ Reset
    \/ Step
    \/ BaseReset
    \/ BaseStep
    \/ RandInt

SpecDeepmind == Init /\ [][NextDeepmind]_vars

\* the pipeline driven in episodes, the way evaluate_agent drives its
\* environment: reset first, then step until a step returns done, then reset
EpisodeReset ==
    /\ hist = NoCall \/ (hist.op = "step" /\ result # NoRet /\ result.done)
    /\ Reset

EpisodeStep ==
    /\ hist.op = "reset" \/ (hist.op = "step" /\ result # NoRet /\ ~result.done)
    /\ Step

NextEpisodes ==
    \/ WrapDeepmindRam
    \/ EpisodeReset
    \/ EpisodeStep
    \/ BaseReset
    \/ BaseStep
    \/ RandInt

SpecEpisodes == Init /\ [][NextEpisodes]_vars

(***************************************************************************)
(* The properties.                                                         *)
(***************************************************************************)
\* the caller's call <op> on a lone wrapper of class kind has returned
Returned(kind, op) ==
    Idle /\ chain = <<kind>> /\ hist.op = op /\ IsObsResult(result) /\ result # NoRet

\* the composed environment's call <op> has returned
ReturnedDeepmind(op) ==
    Idle /\ ctor = "wrap_deepmind_ram" /\ hist.op = op /\ result # NoRet

Noops(n) == [k \in 1..n |-> StepCall(0)]

\* C1: EpisodicLifeEnv.reset, entered with was_real_done true, calls the inner
\* reset exactly once and issues no step; entered with was_real_done false it
\* issues exactly one step with action 0 and does not call the inner reset.
C1_ResetDispatch ==
    Returned("EpisodicLifeEnv", "reset") =>
        /\ hist.was_real_done => hist.calls = <<ResetCall>>
        /\ ~hist.was_real_done => hist.calls = <<StepCall(0)>>

C1_Witness ==
    /\ Returned("EpisodicLifeEnv", "reset")
    /\ ~hist.was_real_done
    /\ hist.calls = <<StepCall(0)>>

\* C2: as long as the base life count has never decreased, the done value
\* EpisodicLifeEnv.step returns is the done value the inner step returned.
C2_DoneIsInnerDone ==
    (Returned("EpisodicLifeEnv", "step") /\ ~lives_dropped) =>
        result.done = hist.inner.done

C2_Witness ==
    /\ Returned("EpisodicLifeEnv", "step")
    /\ ~lives_dropped
    /\ hist.lives > 0
    /\ hist.ale_lives > hist.lives
    /\ ~result.done

\* C3: EpisodicLifeEnv.step returns done = inner done, or the life count read
\* after the step is below the stored one and above 0; obs, reward and info are
\* the inner step's.  A drop to 0 lives with inner done false returns done false.
C3_StepResult ==
    Returned("EpisodicLifeEnv", "step") =>
        /\ result.done = (hist.inner.done
                          \/ (hist.ale_lives < hist.lives /\ hist.ale_lives > 0))
        /\ result.obs = hist.inner.obs
        /\ result.reward = hist.inner.reward
        /\ result.info = hist.inner.info
        /\ (hist.ale_lives = 0 /\ ~hist.inner.done) => ~result.done

C3_Witness ==
    /\ Returned("EpisodicLifeEnv", "step")
    /\ hist.lives > 0
    /\ hist.ale_lives = 0
    /\ ~hist.inner.done
    /\ ~result.done

\* C4: MaxAndSkipEnv.step issues its action k times to the inner environment,
\* k the index of the first sub-step that returns done, or skip if none does;
\* it returns the sum of the k rewards and the k-th sub-step's done and info.
C4_SkipLoop ==
    Returned("MaxAndSkipEnv", "step") =>
        LET k == Len(hist.calls)
        IN /\ 1 <= k /\ k <= skip
           /\ \A j \in 1..k : hist.calls[j] = StepCall(hist.action)
           /\ ~hist.afterDone
           /\ ~hist.sawDone => k = skip
           /\ hist.sawDone => hist.inner.done
           /\ result.reward = hist.rsum
           /\ result.done = hist.inner.done
           /\ result.info = hist.inner.info

C4_Witness ==
    /\ Returned("MaxAndSkipEnv", "step")
    /\ skip = 3
    /\ Len(hist.calls) = 2
    /\ hist.inner.done
    /\ hist.rsum = 1
    /\ hist.action = 2

\* C5: when MaxAndSkipEnv.step executes at least two sub-steps, the observation
\* it returns is the element-wise maximum of the frames of its last two
\* sub-steps, whatever was buffered before the call.
C5_MaxOfLastTwo ==
    (Returned("MaxAndSkipEnv", "step") /\ Len(hist.calls) >= 2) =>
        /\ DOMAIN result.obs = DOMAIN hist.inner.obs
        /\ \A k \in DOMAIN result.obs :
              /\ result.obs[k] >= hist.pobs[k]
              /\ result.obs[k] >= hist.inner.obs[k]
              /\ result.obs[k] \in {hist.pobs[k], hist.inner.obs[k]}
        /\ (hist.pobs = <<1, 2>> /\ hist.inner.obs = <<3, 0>>) => result.obs = <<3, 2>>

C5_Witness ==
    /\ Returned("MaxAndSkipEnv", "step")
    /\ Len(hist.calls) = 3
    /\ hist.obs_buffer = << <<3, 0>>, <<3, 0>> >>
    /\ hist.pobs = <<1, 2>>
    /\ hist.inner.obs = <<1, 2>>
    /\ result.obs = <<1, 2>>

\* C6: wrap_deepmind_ram returns EpisodicLifeEnv, NoopResetEnv(noop_max=30),
\* MaxAndSkipEnv(skip=4), [FireResetEnv], ClippedRewardsWrapper, innermost to
\* outermost, with FireResetEnv exactly when "FIRE" is in the action meanings.
C6_Pipeline ==
    (ctor = "wrap_deepmind_ram" /\ status = "ready") =>
        /\ chain = IF \E k \in DOMAIN meanings : meanings[k] = "FIRE"
                   THEN <<"EpisodicLifeEnv", "NoopResetEnv", "MaxAndSkipEnv",
                          "FireResetEnv", "ClippedRewardsWrapper">>
                   ELSE <<"EpisodicLifeEnv", "NoopResetEnv", "MaxAndSkipEnv",
                          "ClippedRewardsWrapper">>
        /\ noop_max = 30
        /\ skip = 4
        /\ meanings = <<"NOOP", "FIRE", "UP">> => Len(chain) = 5
        /\ meanings = <<"NOOP", "UP">> => Len(chain) = 4

C6_Witness ==
    /\ ctor = "wrap_deepmind_ram"
    /\ status = "ready"
    /\ meanings = <<"NOOP", "FIRE", "UP">>
    /\ chain[4] = "FireResetEnv"

\* C7: a step of the composed environment returns the sign of the sum of the
\* rewards of the base steps it executed.
C7_SignOfSum ==
    ReturnedDeepmind("step") =>
        /\ base_rsum > 0 => result.reward = 1
        /\ base_rsum = 0 => result.reward = 0
        /\ base_rsum < 0 => result.reward = -1

\* base rewards 2, -1, 0, 0 in some order: the signs sum to 0, the sum is 1
C7_Witness ==
    /\ ReturnedDeepmind("step")
    /\ base_rsum = 1
    /\ result.reward = 1

\* C8: wrap_deepmind_ram returns a pipeline exactly when action 0 is NOOP and
\* FIRE is absent or is action 1 of at least 3 actions; otherwise construction
\* raises and no pipeline is returned.
C8_Accepted ==
    /\ Len(meanings) >= 1
    /\ meanings[1] = "NOOP"
    /\ \/ \A k \in DOMAIN meanings : meanings[k] # "FIRE"
       \/ Len(meanings) >= 3 /\ meanings[2] = "FIRE"

C8_Construction ==
    ctor = "wrap_deepmind_ram" =>
        /\ status = "ready" <=> C8_Accepted
        /\ ~C8_Accepted => (status \in {"AssertionError", "IndexError"}
                            /\ chain = << >>)

C8_Witness ==
    /\ ctor = "wrap_deepmind_ram"
    /\ meanings = <<"NOOP", "FIRE">>
    /\ status = "AssertionError"
    /\ chain = << >>

\* C9: NoopResetEnv.reset calls the inner reset once, draws n from 1..noop_max
\* (randint(1, noop_max + 1)), issues exactly n steps with action 0 whatever
\* reward and done they return, and returns the observation of the last one.
C9_NoopReset ==
    /\ (chain = <<"NoopResetEnv">> /\ pending.kind = "randint") =>
          (pending.lo = 1 /\ pending.hi = noop_max + 1 /\ hist.calls = <<ResetCall>>)
    /\ Returned("NoopResetEnv", "reset") =>
          /\ hist.drawn \in 1..noop_max
          /\ hist.calls = <<ResetCall>> \o Noops(hist.drawn)
          /\ result.obs = hist.inner.obs

C9_Witness ==
    /\ Returned("NoopResetEnv", "reset")
    /\ noop_max = 3
    /\ hist.drawn = 3
    /\ hist.afterDone
    /\ hist.pobs # result.obs

\* C10: FireResetEnv.reset calls the inner reset once, then issues step(1) and
\* step(2), also when step(1) returns done, and returns the second
\* observation.
C10_FireReset ==
    Returned("FireResetEnv", "reset") =>
        /\ hist.calls = <<ResetCall, StepCall(1), StepCall(2)>>
        /\ result.obs = hist.inner.obs

C10_Witness ==
    /\ Returned("FireResetEnv", "reset")
    /\ hist.afterDone
    /\ ~hist.inner.done
    /\ hist.pobs # result.obs

\* C11: ClippedRewardsWrapper.step issues exactly one inner step with its action
\* and returns the inner obs, done and info with the reward replaced by its sign;
\* ClippedRewardsWrapper.reset only passes the inner reset on.
C11_ClippedRewards ==
    /\ Returned("ClippedRewardsWrapper", "step") =>
          /\ hist.calls = <<StepCall(hist.action)>>
          /\ result.obs = hist.inner.obs
          /\ result.done = hist.inner.done
          /\ result.info = hist.inner.info
          /\ hist.inner.reward > 0 => result.reward = 1
          /\ hist.inner.reward < 0 => result.reward = -1
          /\ hist.inner.reward = 0 => result.reward = 0
    /\ Returned("ClippedRewardsWrapper", "reset") =>
          /\ hist.calls = <<ResetCall>>
          /\ result = [obs |-> hist.inner.obs]

C11_Witness ==
    /\ Returned("ClippedRewardsWrapper", "step")
    /\ hist.inner.reward = 2
    /\ result.reward = 1
    /\ hist.inner.done

\* evaluate_agent has been called / has returned
Evaluating == ctor = "evaluate_agent" /\ stack # << >>
Evaluated == ctor = "evaluate_agent" /\ stack = << >>
\* the number of episodes evaluate_agent runs
Episodes == IF ev.render THEN 1 ELSE ev.num_episodes

\* C12: evaluate_agent calls env.reset exactly num_episodes times (once when
\* render is true), in each episode steps until the first step that returns
\* done and then issues no further step in that episode, and returns the sum
\* of all step rewards over all episodes divided by the number of episodes.
C12_MeanEpisodeReward ==
    ctor = "evaluate_agent" =>
        /\ ev.resets <= Episodes
        /\ ev.dones <= ev.resets
        /\ ~ev.afterDone
        /\ pending.kind = "step" => (~ev.done /\ ev.dones = ev.resets - 1)
        /\ pending.kind = "reset" => ev.dones = ev.resets - 1
        /\ Evaluated =>
              /\ ev.resets = Episodes
              /\ ev.dones = Episodes
              /\ result = [num |-> ev.rsum, den |-> Episodes]

C12_Witness ==
    /\ Evaluated
    /\ ~ev.render
    /\ ev.num_episodes = 3
    /\ ev.resets = 3
    /\ result = [num |-> 6, den |-> 3]

\* C13: evaluate_agent terminates exactly when each of its episodes eventually
\* gets done = true from the environment. It returns only after every episode
\* has; after a step that did not return done it issues another step, however
\* many steps the episode has had; and, the environment and the agent answering
\* every call, either it returns or from some point on it is for ever stepping
\* in one episode that has not reported done.
C13_TerminatesIffDone ==
    /\ [](Evaluated => ev.dones = Episodes)
    /\ [][(pending.kind = "step" /\ ev'.dones = ev.dones) => pending'.kind = "step"]_vars
    /\ \/ <>Evaluated
       \/ \E k \in 1..MaxEpisodes :
             <>[](Evaluating /\ pending.kind = "step" /\ ev.resets = k /\ ev.dones = k - 1)

C13_Witness ==
    /\ Evaluating
    /\ pending.kind = "step"
    /\ ev.epsteps = MaxEpSteps
    /\ ev.resets = 2
    /\ ~ev.done

\* C14: between the calls on an EpisodicLifeEnv, once its inner environment
\* has answered a step, was_real_done is true exactly when the most recent
\* step issued to the inner environment (the no-op step of reset included)
\* returned done.
C14_RealDoneIsLastDone ==
    (Idle /\ chain = <<"EpisodicLifeEnv">> /\ base_last.stepped) =>
        (was_real_done = base_last.done)

\* C15 as stated: the frame buffer of MaxAndSkipEnv does not outlive a step, so
\* a step that executes a single sub-step returns exactly that sub-step's frame
\* and leaves only that frame in the buffer.
C15_BufferPerStep ==
    (Returned("MaxAndSkipEnv", "step") /\ Len(hist.calls) = 1) =>
        /\ result.obs = hist.inner.obs
        /\ obs_buffer = <<hist.inner.obs>>

\* C15 amended: the frame buffer persists from call to call and only reset
\* empties it. A step returns the element-wise maximum of the frames the buffer
\* holds when it returns: the frames of its last two sub-steps when it executed
\* at least two; with a single sub-step, that sub-step's frame alone when the
\* buffer was empty at entry, and otherwise that frame together with the frame
\* buffered last before the call.
C15_BufferPersists ==
    Returned("MaxAndSkipEnv", "step") =>
        LET held == IF Len(hist.calls) >= 2 THEN <<hist.pobs>>
                    ELSE IF hist.obs_buffer = << >> THEN << >>
                    ELSE <<hist.obs_buffer[Len(hist.obs_buffer)]>>
        IN /\ obs_buffer = held \o <<hist.inner.obs>>
           /\ DOMAIN result.obs = DOMAIN hist.inner.obs
           /\ \A k \in DOMAIN result.obs :
                 /\ result.obs[k] >= hist.inner.obs[k]
                 /\ \A j \in DOMAIN held : result.obs[k] >= held[j][k]
                 /\ result.obs[k] \in {hist.inner.obs[k]} \cup {held[j][k] : j \in DOMAIN held}

C15_Witness ==
    /\ Returned("MaxAndSkipEnv", "step")
    /\ Len(hist.calls) = 1
    /\ hist.obs_buffer = << <<1, 2>> >>
    /\ hist.inner.obs = <<3, 0>>
    /\ result.obs = <<3, 2>>

\* C16 as stated: when EpisodicLifeEnv.step or EpisodicLifeEnv.reset returns,
\* the stored life count equals the base environment's current life count, and
\* the call that stored it had compared the new count with the stored one.
C16_LivesComparedThenStored ==
    (Returned("EpisodicLifeEnv", "step") \/ Returned("EpisodicLifeEnv", "reset")) =>
        /\ lives = ale_lives
        /\ hist.compared

\* C16 amended: when EpisodicLifeEnv.step or EpisodicLifeEnv.reset (either branch)
\* returns, the stored life count equals the base environment's current life
\* count; step stores it after comparing the new count with the stored one,
\* reset stores it without any comparison.
C16_LivesStored ==
    /\ Returned("EpisodicLifeEnv", "step") =>
          /\ lives = ale_lives
          /\ hist.compared
          /\ result.done = (hist.inner.done \/ (lives < hist.lives /\ lives > 0))
    /\ Returned("EpisodicLifeEnv", "reset") =>
          /\ lives = ale_lives
          /\ ~hist.compared

C16_Witness ==
    /\ Returned("EpisodicLifeEnv", "reset")
    /\ hist.calls = <<StepCall(0)>>
    /\ hist.lives = 2
    /\ lives = 1
    /\ ale_lives = 1

\* C17: MaxAndSkipEnv.reset calls the inner reset exactly once and returns its
\* observation unchanged, and the buffer then holds exactly that observation;
\* in every reachable state the buffer holds at most 2 frames, and after a step
\* they are the most recently appended ones, oldest first.
C17_ResetSeedsBuffer ==
    /\ Len(obs_buffer) <= 2
    /\ Returned("MaxAndSkipEnv", "reset") =>
          /\ hist.calls = <<ResetCall>>
          /\ result = [obs |-> hist.inner.obs]
          /\ obs_buffer = <<result.obs>>
    /\ Returned("MaxAndSkipEnv", "step") =>
          /\ obs_buffer[Len(obs_buffer)] = hist.inner.obs
          /\ (Len(hist.calls) >= 2) => obs_buffer = <<hist.pobs, hist.inner.obs>>
          /\ (Len(hist.calls) = 1 /\ hist.obs_buffer # << >>) =>
                obs_buffer = <<hist.obs_buffer[Len(hist.obs_buffer)], hist.inner.obs>>

C17_Witness ==
    /\ Returned("MaxAndSkipEnv", "reset")
    /\ Len(hist.obs_buffer) = 2
    /\ hist.obs_buffer[2] = <<1, 2>>
    /\ obs_buffer = << <<3, 0>> >>

\* C18 as stated: in the pipeline of wrap_deepmind_ram, within one step of the
\* composed environment the first base sub-step in which the base reports done
\* or the life count drops to a value above zero ends the step (no further base
\* step is issued in that call) and the step returns done = true; and a
\* composed step returns done = true only if its last base sub-step was such a
\* sub-step.
C18_ClosingSubStep ==
    (InPipeline /\ hist.op = "step") =>
        /\ base_hist.closed =>
              /\ Idle
              /\ ~base_hist.afterClosed
              /\ result # NoRet
              /\ result.done
        /\ (Idle /\ result # NoRet /\ result.done) => base_hist.lastClosed

\* C18 amended: the same, for every composed step but one that is the very
\* first call on a freshly built pipeline, where EpisodicLifeEnv still stores a
\* life count of 0 and so cannot see a drop.
C18_ClosingSubStepOnceCalled ==
    (InPipeline /\ hist.op = "step" /\ ~base_hist.first) =>
        /\ base_hist.closed =>
              /\ Idle
              /\ ~base_hist.afterClosed
              /\ result # NoRet
              /\ result.done
        /\ (Idle /\ result # NoRet /\ result.done) => base_hist.lastClosed

C18_Witness ==
    /\ ReturnedDeepmind("step")
    /\ ~base_hist.first
    /\ base_hist.closed
    /\ ~base_last.done
    /\ result.done
    /\ base_rsum = 4

\* C19: in the pipeline driven in episodes (reset first, then steps until done,
\* then reset again), no step is issued to the base environment between a base
\* step that returned done and the next base reset.
C19_NoStepAfterDone ==
    InPipeline => ~(pending.kind = "step" /\ base_last.over)

\* C20: in the first call on a freshly built pipeline, when it is a reset, the
\* base reset is called before any base step, and the base calls come in this
\* order: one base reset, then between 1 and 30 steps with action 0, then, only
\* when the pipeline has a FireResetEnv, at most 4 steps with action 1 followed
\* by at most 4 steps with action 2.
C20_FirstReset ==
    (InPipeline /\ status = "ready" /\ base_hist.first /\ hist.op = "reset") =>
        /\ noop_max = 30
        /\ skip = 4
        /\ base_hist.ok
        /\ pending.kind = "step" => base_hist.stage # "new"
        /\ base_hist.stage \in {"fire1", "fire2"} => Contains(chain, "FireResetEnv")
        /\ (Idle /\ result # NoRet) =>
              base_hist.stage = IF Contains(chain, "FireResetEnv") THEN "fire2" ELSE "noop"

C20_Witness ==
    /\ ReturnedDeepmind("reset")
    /\ base_hist.first
    /\ base_hist.ok
    /\ base_hist.stage = "fire2"
    /\ base_hist.len = 4

=============================================================================
